---- MODULE Spec2Model ----
(***************************************************************************)
(* generate_spectra (src/faraday_spectra/generate_spectra.py) as a state   *)
(* machine: one action per numpy / collaborator call of the function body. *)
(*                                                                         *)
(* Numbers are fixed point integers.  Amplitudes and probabilities are in  *)
(* units of 1/One (the value 1.0 is One).  A phase is the pair             *)
(* <<cos, sin>> of its angle scaled by 5 (Pythagorean pairs, so that the   *)
(* arithmetic is exact).  Faraday depths are integers, the squared         *)
(* wavelengths are in units of pi/4 so that exp(2i * depth * lsq) is a     *)
(* power of i.  Python's 0-based index k is the TLA+ index k + 1.          *)
(*                                                                         *)
(* The default grid -1000..1000 is scaled to min_phi..max_phi = -6..6, the *)
(* speed of light 3e8 to LightSpeed = 6 (a multiple of every frequency of  *)
(* the model, so that (c / freq)^2 is exact).  The RM-synthesis transform  *)
(* and the Gaussian filter are collaborators: the first is modelled by its *)
(* possible outcomes, the second is left uninterpreted.                    *)
(***************************************************************************)
EXTENDS Integers, Sequences, FiniteSets, TLC

VARIABLES cfg, pc, error, depths, amps, simple, phases, channel_mask,
          spectra, fdf_gt, sigmas, noise, spectra_noisy, sim_fdf, targets

vars == <<cfg, pc, error, depths, amps, simple, phases, channel_mask,
          spectra, fdf_gt, sigmas, noise, spectra_noisy, sim_fdf, targets>>

(* ------------------------------ bounds -------------------------------- *)
MaxN == 2
MaxF == 2
MaxD == 3
One == 2

(* ------------------------- program constants -------------------------- *)
min_phi == -6
max_phi == 6
LightSpeed == 6
SmoothSigma == 3

(* ------------------------------ numbers ------------------------------- *)
Min(a, b) == IF a <= b THEN a ELSE b
Max(a, b) == IF a <= b THEN b ELSE a

\* A float that may be NaN.
NaN == [nan |-> TRUE, v |-> 0]
Fl(x) == [nan |-> FALSE, v |-> x]
FAdd(a, b) == IF a.nan \/ b.nan THEN NaN ELSE Fl(a.v + b.v)
FSub(a, b) == IF a.nan \/ b.nan THEN NaN ELSE Fl(a.v - b.v)
FMul(a, b) == IF a.nan \/ b.nan THEN NaN ELSE Fl(a.v * b.v)

\* complex * complex on floats that may be NaN: (a+bi)(c+di)
CMulF(x, y) == <<FSub(FMul(x[1], y[1]), FMul(x[2], y[2])),
                 FAdd(FMul(x[1], y[2]), FMul(x[2], y[1]))>>

\* complex * complex and complex + complex on integers
CMul(x, y) == <<x[1] * y[1] - x[2] * y[2], x[1] * y[2] + x[2] * y[1]>>
CAdd(x, y) == <<x[1] + y[1], x[2] + y[2]>>
CScale(a, x) == <<a * x[1], a * x[2]>>

\* i^k
IPow(k) == CASE k % 4 = 0 -> <<1, 0>>
             [] k % 4 = 1 -> <<0, 1>>
             [] k % 4 = 2 -> <<-1, 0>>
             [] OTHER -> <<0, -1>>

(* --------------------------- configuration ---------------------------- *)
\* freqs: F positive frequencies, sorted.
FreqGrid(F) == [f \in 1..F |-> f]

Cfg(n, F, D, mn, pad, cf, dc) ==
    [n_spectra |-> n, freqs |-> FreqGrid(F), phi_sampling |-> D,
     max_noise |-> mn, phi_padding |-> pad, complex_fraction |-> cf,
     drop_channels |-> dc]

ProbValues == {-1, 0, 1, One, One + 1}
NoiseBounds == {-1, 0, 1}
HalfRange == (max_phi - min_phi) \div 2
PadValues == {-1, 0, 1, HalfRange, max_phi - min_phi, (max_phi - min_phi) + 1}

\* Batches of every size, all depths drawn from a degenerate interval.
BatchConfigs ==
    {Cfg(n, 1, MaxD, 0, HalfRange, cf, 0) : n \in -1..MaxN, cf \in {0, 1, One}}
\* One example: the corruption parameters vary.
CorruptionConfigs ==
    {Cfg(1, F, MaxD, mn, 0, cf, dc) :
        F \in 0..MaxF, mn \in NoiseBounds, cf \in {0, One}, dc \in ProbValues}
\* One example: the depth grid, the padding and the complex fraction vary.
GridConfigs ==
    {Cfg(1, 1, D, 0, pad, cf, 0) :
        D \in 0..MaxD, pad \in PadValues, cf \in ProbValues}

Configs == BatchConfigs \cup CorruptionConfigs \cup GridConfigs

(* ------------------------------ line 55-56 ---------------------------- *)
\* lsq = (3e8 / freqs) ** 2
Lsq(freqs) == [f \in DOMAIN freqs |-> (LightSpeed \div freqs[f]) * (LightSpeed \div freqs[f])]

\* numpy.linspace(lo, hi, num): the last point is hi exactly
Linspace(lo, hi, num) ==
    IF num = 1 THEN <<lo>>
    ELSE [k \in 1..num |-> IF k = num THEN hi ELSE lo + ((k - 1) * (hi - lo)) \div (num - 1)]

lsq == Lsq(cfg.freqs)
phis == Linspace(min_phi, max_phi, cfg.phi_sampling)
N == cfg.n_spectra
F == Len(cfg.freqs)
D == cfg.phi_sampling

(* --------------------------- numpy.random ----------------------------- *)
NoError == [kind |-> "none", line |-> 0]
Raise(kind, line) ==
    /\ pc' = "raised"
    /\ error' = [kind |-> kind, line |-> line]

\* numpy.random.uniform(lo, hi) for depths: the samples of the interval
DepthSamples == {-1}
UniformDepth(lo, hi) ==
    {Min(lo, hi), Max(lo, hi)} \cup (DepthSamples \cap (Min(lo, hi)..Max(lo, hi)))

\* numpy.random.uniform(0, 1): 0 <= x < 1
UniformAmp == 0..(One - 1)

\* numpy.random.uniform(-pi/2, pi/2), as <<cos, sin>> * 5
UniformPhase == {<<0, -5>>, <<5, 0>>, <<3, 4>>}

\* numpy.random.uniform(0, hi) for the noise scale
UniformSigma(hi) == {0, hi}

\* A binomial draw that clips p into [0, 1] instead of rejecting it.
BinomialRejects_Never(p) == FALSE

\* numpy.random.binomial(1, p) rejects p outside [0, 1]
BinomialRejects(p) == p < 0 \/ p > One
Binomial1(p) == IF p = 0 THEN {FALSE}
                ELSE IF p = One THEN {TRUE}
                ELSE {FALSE, TRUE}

\* numpy.random.normal(0, s): rejects s < 0; s = 0 gives 0
NormalRejects(s) == s < 0
Normal(s) == IF s = 0 THEN {0} ELSE {-s, s}

(* ------------------------------- Init --------------------------------- *)
Init ==
    /\ cfg \in Configs
    /\ pc = "depths"
    /\ error = NoError
    /\ depths = <<>>
    /\ amps = <<>>
    /\ simple = <<>>
    /\ phases = <<>>
    /\ channel_mask = <<>>
    /\ spectra = <<>>
    /\ fdf_gt = <<>>
    /\ sigmas = <<>>
    /\ noise = <<>>
    /\ spectra_noisy = <<>>
    /\ sim_fdf = [set |-> FALSE, shape |-> <<0, 0>>]
    /\ targets = <<>>

(* ---------------------------- line 61-62 ------------------------------ *)
DrawDepths ==
    /\ pc = "depths"
    /\ IF N < 0
       THEN /\ Raise("ValueError", 61)
            /\ UNCHANGED depths
       ELSE /\ depths' \in [1..N -> [1..2 ->
                    UniformDepth(min_phi + cfg.phi_padding, max_phi - cfg.phi_padding)]]
            /\ pc' = "amps"
            /\ UNCHANGED error
    /\ UNCHANGED <<cfg, amps, simple, phases, channel_mask, spectra, fdf_gt,
                   sigmas, noise, spectra_noisy, sim_fdf, targets>>

(* ---------------------------- line 63-64 ------------------------------ *)
\* amps[:, 0] = 1
NormaliseFirst(a) == [i \in DOMAIN a |-> [a[i] EXCEPT ![1] = One]]

DrawAmps ==
    /\ pc = "amps"
    /\ \E a \in [1..N -> [1..2 -> UniformAmp]] : amps' = NormaliseFirst(a)
    /\ pc' = "simple"
    /\ UNCHANGED <<cfg, error, depths, simple, phases, channel_mask, spectra,
                   fdf_gt, sigmas, noise, spectra_noisy, sim_fdf, targets>>

(* ---------------------------- line 66-67 ------------------------------ *)
\* The complex fraction taken for the probability of a simple example.
SimpleProb_Complement(cf) == cf

\* the probability that an example is simple
SimpleProb(cf) == One - cf

\* amps[~simple, 1] = 0: the mask inverted.
ZeroSimple_Inverted(a, s) == [i \in DOMAIN a |-> IF s[i] THEN a[i] ELSE [a[i] EXCEPT ![2] = 0]]

\* amps[simple, 0] = 0: the wrong column.
ZeroSimple_FirstColumn(a, s) == [i \in DOMAIN a |-> IF s[i] THEN [a[i] EXCEPT ![1] = 0] ELSE a[i]]

\* amps[simple, 1] = 0
ZeroSimple(a, s) == [i \in DOMAIN a |-> IF s[i] THEN [a[i] EXCEPT ![2] = 0] ELSE a[i]]

DrawSimple ==
    /\ pc = "simple"
    /\ IF BinomialRejects(SimpleProb(cfg.complex_fraction))
       THEN /\ Raise("ValueError", 66)
            /\ UNCHANGED <<simple, amps>>
       ELSE /\ simple' \in [1..N -> Binomial1(SimpleProb(cfg.complex_fraction))]
            /\ amps' = ZeroSimple(amps, simple')
            /\ pc' = "phases"
            /\ UNCHANGED error
    /\ UNCHANGED <<cfg, depths, phases, channel_mask, spectra, fdf_gt,
                   sigmas, noise, spectra_noisy, sim_fdf, targets>>

(* ---------------------------- line 68-71 ------------------------------ *)
Zeros(rows, cols) == [i \in 1..rows |-> [k \in 1..cols |-> <<0, 0>>]]

DrawPhases ==
    /\ pc = "phases"
    /\ phases' \in [1..N -> [1..2 -> UniformPhase]]
    /\ spectra' = Zeros(N, F)
    /\ fdf_gt' = Zeros(N, D)
    /\ pc' = "mask"
    /\ UNCHANGED <<cfg, error, depths, amps, simple, channel_mask,
                   sigmas, noise, spectra_noisy, sim_fdf, targets>>

(* ------------------------------ line 74 ------------------------------- *)
DrawMask ==
    /\ pc = "mask"
    /\ IF BinomialRejects(cfg.drop_channels)
       THEN /\ Raise("ValueError", 74)
            /\ UNCHANGED channel_mask
       ELSE /\ channel_mask' \in [1..N -> [1..F -> Binomial1(cfg.drop_channels)]]
            /\ pc' = "loop"
            /\ UNCHANGED error
    /\ UNCHANGED <<cfg, depths, amps, simple, phases, spectra, fdf_gt,
                   sigmas, noise, spectra_noisy, sim_fdf, targets>>

(* ---------------------------- line 76-84 ------------------------------ *)
\* line 79: simple[i] and amps[i, 1]
Inconsistent(s, a) == s /\ a[2] # 0

\* line 81: amps[i, p] * exp(2j * (phases[i, p] + depths[i, p] * lsq[f]))
ScreenTerm(amp, ph, depth, l) == CScale(amp, CMul(CMul(ph, ph), IPow(depth * l)))

\* phis.searchsorted(v, side='right'): the number of grid points not above v.
SearchSorted_Right(grid, v) == Cardinality({k \in DOMAIN grid : grid[k] <= v})

\* line 82: phis.searchsorted(v), the number of grid points below v
SearchSorted(grid, v) == Cardinality({k \in DOMAIN grid : grid[k] < v})

\* The imaginary part left out (line 84 missing).
Accumulate_CosOnly(row, idx, amp, ph) ==
    [row EXCEPT ![idx + 1] = CAdd(@, <<amp * ph[1], 0>>)]

\* Assignment in place of +=: a later screen overwrites an earlier one.
Accumulate_Overwrite(row, idx, amp, ph) ==
    [row EXCEPT ![idx + 1] = <<amp * ph[1], amp * ph[2]>>]

\* lines 83-84: fdf_gt[i, idx] += amp * cos(phase); fdf_gt[i, idx] += 1j * amp * sin(phase)
Accumulate(row, idx, amp, ph) ==
    LET afterCos == [row EXCEPT ![idx + 1] = CAdd(@, <<amp * ph[1], 0>>)]
    IN  [afterCos EXCEPT ![idx + 1] = CAdd(@, <<0, amp * ph[2]>>)]

\* The loop from its k-th iteration on (i = k \div 2, p = k % 2, both 0-based).
RECURSIVE LoopFrom(_, _, _)
LoopFrom(k, sp, fd) ==
    IF k >= 2 * N THEN [err |-> NoError, spectra |-> sp, fdf_gt |-> fd]
    ELSE LET i == (k \div 2) + 1
             p == (k % 2) + 1
             idx == SearchSorted(phis, depths[i][p])
             sp1 == [sp EXCEPT ![i] = [f \in 1..F |->
                        CAdd(sp[i][f], ScreenTerm(amps[i][p], phases[i][p], depths[i][p], lsq[f]))]]
         IN  IF p = 2 /\ Inconsistent(simple[i], amps[i])
             THEN [err |-> [kind |-> "RuntimeError", line |-> 80], spectra |-> sp, fdf_gt |-> fd]
             ELSE IF idx >= D
             THEN [err |-> [kind |-> "IndexError", line |-> 83], spectra |-> sp1, fdf_gt |-> fd]
             ELSE LoopFrom(k + 1, sp1, [fd EXCEPT ![i] = Accumulate(@, idx, amps[i][p], phases[i][p])])

ForwardLoop ==
    /\ pc = "loop"
    /\ LET r == LoopFrom(0, spectra, fdf_gt)
       IN  /\ spectra' = r.spectra
           /\ fdf_gt' = r.fdf_gt
           /\ error' = r.err
           /\ pc' = IF r.err = NoError THEN "sigmas" ELSE "raised"
    /\ UNCHANGED <<cfg, depths, amps, simple, phases, channel_mask,
                   sigmas, noise, spectra_noisy, sim_fdf, targets>>

(* ------------------------------ line 87 ------------------------------- *)
DrawSigmas ==
    /\ pc = "sigmas"
    /\ sigmas' \in [1..N -> UniformSigma(cfg.max_noise)]
    /\ pc' = "noise"
    /\ UNCHANGED <<cfg, error, depths, amps, simple, phases, channel_mask,
                   spectra, fdf_gt, noise, spectra_noisy, sim_fdf, targets>>

(* ---------------------------- line 88-92 ------------------------------ *)
\* line 89: spectra + noise, a complex array plus a real one
AddNoise(z, x) == <<Fl(z[1] + x), Fl(z[2])>>

\* Dropped channels zeroed instead of marked missing.
BlankFactor_Zero(dropped) == IF dropped THEN Fl(0) ELSE Fl(1)

\* line 92: numpy.where(channel_mask, numpy.nan, 1), a real factor
BlankFactor(dropped) == IF dropped THEN NaN ELSE Fl(1)

\* line 92: spectra_noisy *= factor, the real factor promoted to complex
Blank(z, dropped) == CMulF(z, <<BlankFactor(dropped), Fl(0)>>)

Corrupt ==
    /\ pc = "noise"
    /\ IF \E i \in 1..N : NormalRejects(sigmas[i])
       THEN /\ Raise("ValueError", 88)
            /\ UNCHANGED <<noise, spectra_noisy>>
       ELSE /\ noise' \in [1..N -> [1..F -> UNION {Normal(sigmas[i]) : i \in 1..N}]]
            /\ \A i \in 1..N : \A f \in 1..F : noise'[i][f] \in Normal(sigmas[i])
            /\ spectra_noisy' = [i \in 1..N |-> [f \in 1..F |->
                    Blank(AddNoise(spectra[i][f], noise'[i][f]), channel_mask[i][f])]]
            /\ pc' = "rmsynth"
            /\ UNCHANGED error
    /\ UNCHANGED <<cfg, depths, amps, simple, phases, channel_mask, spectra,
                   fdf_gt, sigmas, sim_fdf, targets>>

(* ---------------------------- line 95-97 ------------------------------ *)
\* What util_RM.do_rmsynth_planes may do: return an FDF of the shape of the
\* depth grid by the batch, return one of another shape, or raise.
RMOutcomes == {"fdf", "misshapen", "raise"}
RMShape(outcome) == IF outcome = "fdf" THEN <<D, N>> ELSE <<D + 1, N>>

\* line 97: sim_fdf.T
Transpose(shape) == <<shape[2], shape[1]>>

\* The call wrapped in a handler that swallows the collaborator's failure.
RMSynth_Swallow ==
    /\ pc = "rmsynth"
    /\ \E outcome \in RMOutcomes :
         IF outcome = "raise"
         THEN /\ error' = [kind |-> "CollaboratorError", line |-> 95]
              /\ pc' = "smooth"
              /\ UNCHANGED sim_fdf
         ELSE /\ sim_fdf' = [set |-> TRUE, shape |-> Transpose(RMShape(outcome))]
              /\ pc' = "smooth"
              /\ UNCHANGED error
    /\ UNCHANGED <<cfg, depths, amps, simple, phases, channel_mask, spectra,
                   fdf_gt, sigmas, noise, spectra_noisy, targets>>

RMSynth ==
    /\ pc = "rmsynth"
    /\ \E outcome \in RMOutcomes :
         IF outcome = "raise"
         THEN /\ Raise("CollaboratorError", 95)
              /\ UNCHANGED sim_fdf
         ELSE /\ sim_fdf' = [set |-> TRUE, shape |-> Transpose(RMShape(outcome))]
              /\ pc' = "smooth"
              /\ UNCHANGED error
    /\ UNCHANGED <<cfg, depths, amps, simple, phases, channel_mask, spectra,
                   fdf_gt, sigmas, noise, spectra_noisy, targets>>

(* --------------------------- line 100-115 ----------------------------- *)
\* scipy.ndimage.gaussian_filter1d(x, sigma=3, axis=-1), left uninterpreted
GaussianFilter1d(row, sigma) == [filter |-> "gaussian", sigma |-> sigma, of |-> row]

Real(row) == [k \in DOMAIN row |-> row[k][1]]
Imag(row) == [k \in DOMAIN row |-> row[k][2]]

SmoothAndReturn ==
    /\ pc = "smooth"
    /\ targets' = [i \in 1..N |->
            <<GaussianFilter1d(Real(fdf_gt[i]), SmoothSigma),
              GaussianFilter1d(Imag(fdf_gt[i]), SmoothSigma)>>]
    /\ pc' = "returned"
    /\ UNCHANGED <<cfg, error, depths, amps, simple, phases, channel_mask,
                   spectra, fdf_gt, sigmas, noise, spectra_noisy, sim_fdf>>

(* ------------------------------- Spec --------------------------------- *)
Next ==
    \/ DrawDepths
    \/ DrawAmps
    \/ DrawSimple
    \/ DrawPhases
    \/ DrawMask
    \/ ForwardLoop
    \/ DrawSigmas
    \/ Corrupt
    \/ RMSynth
    \/ SmoothAndReturn

Spec == Init /\ [][Next]_vars

(* ======================= properties of the code ======================= *)
Returned == pc = "returned"
AfterSimple == pc \in {"phases", "mask", "loop", "sigmas", "noise", "rmsynth", "smooth", "returned"}
LoopDone == pc \in {"sigmas", "noise", "rmsynth", "smooth", "returned"}
Corrupted == pc \in {"rmsynth", "smooth", "returned"}
Examples == 1..N
Channels == 1..F

\* the 0-based grid index of screen p of example i
Idx(i, p) == SearchSorted(phis, depths[i][p])
NonZero(z) == z[1] # 0 \/ z[2] # 0
NonZeroEntries(row) == {k \in DOMAIN row : NonZero(row[k])}
MagSq(z) == z[1] * z[1] + z[2] * z[2]
\* numpy.isnan of a complex value
IsMissing(z) == z[1].nan \/ z[2].nan

(* ---------------------------------------------------------------------- *)
\* C1: from the zeroing at line 67 on, and so in every returned bundle,
\* every example flagged simple has a second amplitude of exactly 0.
C1_SimpleHasNoSecondScreen ==
    AfterSimple => \A i \in Examples : simple[i] => amps[i][2] = 0

\* A returned batch with a simple example beside a complex one whose second
\* amplitude is not zero.
C1_Witness ==
    /\ Returned
    /\ cfg.complex_fraction \notin {0, One}
    /\ \E i, j \in Examples : simple[i] /\ ~simple[j] /\ amps[j][2] # 0

(* ---------------------------------------------------------------------- *)
InvalidConfig ==
    \/ N <= 0
    \/ F = 0
    \/ D = 0
    \/ cfg.max_noise < 0
    \/ cfg.complex_fraction \notin 0..One
    \/ cfg.drop_channels \notin 0..One

\* C2 as stated: an invalid configuration never returns a bundle, and the
\* failure that ends the call comes before any random draw is made (no later
\* than the first draw, line 61).
C2_RejectedUpFront ==
    InvalidConfig => /\ pc # "returned"
                     /\ pc = "raised" => error.line <= 61

\* The configurations the calls of the function body do reject.
RejectedByDraws ==
    \/ N < 0
    \/ cfg.complex_fraction \notin 0..One
    \/ cfg.drop_channels \notin 0..One
    \/ (D = 0 /\ N >= 1)

\* C2 amended: a negative n_spectra, a complex_fraction or drop_channels
\* outside [0,1], and phi_sampling = 0 with n_spectra >= 1 end the call in a
\* ValueError or an IndexError before the noise is drawn, at the call that
\* receives the value (lines 61, 66, 74, 83), and never in a returned bundle.
C2_RejectedByTheDraws ==
    RejectedByDraws =>
        /\ pc \in {"depths", "amps", "simple", "phases", "mask", "loop", "raised"}
        /\ pc = "raised" => /\ error.kind \in {"ValueError", "IndexError"}
                            /\ error.line \in {61, 66, 74, 83}
        /\ (N < 0 /\ pc # "depths") => error = [kind |-> "ValueError", line |-> 61]

\* A complex_fraction above 1 is rejected by the binomial draw of line 66,
\* after the depths and the amplitudes were drawn.
C2_Witness ==
    /\ pc = "raised"
    /\ cfg.complex_fraction > One
    /\ error = [kind |-> "ValueError", line |-> 66]
    /\ Len(depths) = N /\ Len(amps) = N /\ N >= 1

(* ---------------------------------------------------------------------- *)
\* C3 as stated: no bundle is returned unless the transform returned an FDF
\* of the shape of the depth grid (phi_sampling depths by n_spectra examples,
\* transposed at line 97).
C3_NoMisshapenBundle ==
    /\ error.kind = "CollaboratorError" => pc = "raised"
    /\ (Returned /\ ~InvalidConfig) => sim_fdf.shape = <<N, D>>

\* C3 amended: if the transform raises, the call ends in that failure and no
\* bundle is returned; whatever array the transform returns is transposed and
\* returned as sim_fdf, its shape unchecked.
C3_RaisePropagates ==
    /\ error.kind = "CollaboratorError" => pc = "raised" /\ ~sim_fdf.set /\ targets = <<>>
    /\ pc \in {"smooth", "returned"} => error = NoError /\ sim_fdf.set

\* The transform raised and the call ended there.
C3_Witness ==
    /\ pc = "raised"
    /\ error = [kind |-> "CollaboratorError", line |-> 95]
    /\ N >= 1 /\ Len(spectra_noisy) = N

(* ---------------------------------------------------------------------- *)
\* C4: in the corrupted spectrum, and so in the returned bundle, a channel is
\* missing (NaN) exactly when its mask is true, whatever noise it received;
\* a channel whose mask is false holds the true spectrum plus its noise;
\* drop_channels = 1 marks every channel missing and drop_channels = 0 none.
C4_MissingIffDropped ==
    Corrupted =>
        /\ \A i \in Examples : \A f \in Channels :
             /\ IsMissing(spectra_noisy[i][f]) <=> channel_mask[i][f]
             /\ ~channel_mask[i][f] =>
                    spectra_noisy[i][f] = <<Fl(spectra[i][f][1] + noise[i][f]),
                                            Fl(spectra[i][f][2])>>
        /\ cfg.drop_channels = One =>
             \A i \in Examples : \A f \in Channels : IsMissing(spectra_noisy[i][f])
        /\ cfg.drop_channels = 0 =>
             \A i \in Examples : \A f \in Channels : ~IsMissing(spectra_noisy[i][f])

\* A returned example with a dropped channel beside a kept channel that
\* received noise.
C4_Witness ==
    /\ Returned
    /\ \E i \in Examples : \E f, g \in Channels :
         /\ channel_mask[i][f] /\ noise[i][f] # 0 /\ IsMissing(spectra_noisy[i][f])
         /\ ~channel_mask[i][g] /\ noise[i][g] # 0 /\ ~IsMissing(spectra_noisy[i][g])

(* ---------------------------------------------------------------------- *)
\* C5 as stated: on every channel that is not dropped, the real part and the
\* imaginary part of the noisy spectrum are each the true part plus a draw
\* from the example's noise distribution.
C5_NoiseOnBothParts ==
    (Corrupted /\ ~InvalidConfig) =>
        \A i \in Examples : \A f \in Channels :
            ~channel_mask[i][f] =>
                /\ spectra_noisy[i][f][1].v - spectra[i][f][1] \in Normal(sigmas[i])
                /\ spectra_noisy[i][f][2].v - spectra[i][f][2] \in Normal(sigmas[i])

(* ---------------------------------------------------------------------- *)
\* C6 as stated: an example whose screens map to distinct grid indices has
\* exactly two nonzero entries in fdf_gt, one at each screen's index, of the
\* magnitude of that screen's amplitude.
C6_TwoNonZeroEntries ==
    (LoopDone /\ ~InvalidConfig) =>
        \A i \in Examples :
            Idx(i, 1) # Idx(i, 2) =>
                /\ Cardinality(NonZeroEntries(fdf_gt[i])) = 2
                /\ NonZeroEntries(fdf_gt[i]) = {Idx(i, 1) + 1, Idx(i, 2) + 1}

\* C6 amended: an example whose screens map to distinct grid indices holds at
\* each screen's index an entry of the magnitude of that screen's amplitude
\* and zero elsewhere; the entry of the second screen is nonzero only when
\* its amplitude is, so a simple example has one nonzero entry, not two.
C6_EntriesOfNonZeroAmplitudes ==
    LoopDone =>
        \A i \in Examples :
            Idx(i, 1) # Idx(i, 2) =>
                /\ \A p \in 1..2 :
                     MagSq(fdf_gt[i][Idx(i, p) + 1]) =
                        amps[i][p] * amps[i][p] * MagSq(phases[i][p])
                /\ NonZeroEntries(fdf_gt[i]) =
                     {Idx(i, p) + 1 : p \in {q \in 1..2 : amps[i][q] # 0}}
                /\ Cardinality(NonZeroEntries(fdf_gt[i])) =
                     IF amps[i][2] # 0 THEN 2 ELSE 1

\* A complex example on two distinct grid indices, with two nonzero entries.
C6_Witness ==
    /\ Returned
    /\ \E i \in Examples :
         /\ Idx(i, 1) # Idx(i, 2)
         /\ ~simple[i] /\ amps[i][2] # 0
         /\ phases[i][2][1] # 0 /\ phases[i][2][2] # 0
         /\ Cardinality(NonZeroEntries(fdf_gt[i])) = 2

(* ---------------------------------------------------------------------- *)
\* C7: when both screens of an example map to the same grid index, fdf_gt at
\* that index is the sum of both screens' amplitude * cos(phase) in the real
\* part and amplitude * sin(phase) in the imaginary part, and fdf_gt is zero
\* at every other index.
C7_CollidingScreensAdd ==
    LoopDone =>
        \A i \in Examples :
            Idx(i, 1) = Idx(i, 2) =>
                \A k \in 1..D :
                    fdf_gt[i][k] =
                        IF k = Idx(i, 1) + 1
                        THEN <<amps[i][1] * phases[i][1][1] + amps[i][2] * phases[i][2][1],
                               amps[i][1] * phases[i][1][2] + amps[i][2] * phases[i][2][2]>>
                        ELSE <<0, 0>>

\* Two screens of different depths and phases on one grid index, the second
\* with a nonzero amplitude.
C7_Witness ==
    /\ Returned
    /\ \E i \in Examples :
         /\ Idx(i, 1) = Idx(i, 2)
         /\ depths[i][1] # depths[i][2]
         /\ phases[i][1] # phases[i][2]
         /\ amps[i][2] # 0

(* ---------------------------------------------------------------------- *)
\* The scenario of C8, on the grids of the model: one example, no complex
\* examples, no dropped channels, default padding, a positive noise bound.
C8_Scenario ==
    /\ N = 1 /\ F = MaxF /\ D = MaxD
    /\ cfg.complex_fraction = 0 /\ cfg.drop_channels = 0
    /\ cfg.phi_padding = 0 /\ cfg.max_noise > 0

\* C8: in the scenario the call fails nowhere in its own code, and returns
\* one example with simple[0] true, amps[0] = (1, 0), no missing channel and
\* one nonzero entry in fdf_gt.
C8_SimpleScenario ==
    C8_Scenario =>
        /\ error.kind \in {"none", "CollaboratorError"}
        /\ Returned =>
             /\ Len(simple) = 1 /\ Len(amps) = 1 /\ Len(fdf_gt) = 1
             /\ Len(spectra_noisy) = 1
             /\ simple[1]
             /\ amps[1] = <<One, 0>>
             /\ \A f \in Channels : ~IsMissing(spectra_noisy[1][f])
             /\ Cardinality(NonZeroEntries(fdf_gt[1])) = 1

\* The scenario returned, with noise on its channels.
C8_Witness ==
    /\ C8_Scenario
    /\ Returned
    /\ sigmas[1] # 0
    /\ Idx(1, 1) # Idx(1, 2)

(* ---------------------------------------------------------------------- *)
\* C9: no call ends in the RuntimeError of the consistency check of line 80.
C9_ConsistencyCheckNeverFails == error.kind # "RuntimeError"

\* The loop ran the check on a simple example, and on a complex one, and
\* went on.
C9_Witness ==
    /\ LoopDone
    /\ \E i, j \in Examples : simple[i] /\ ~simple[j] /\ amps[j][2] # 0

(* ---------------------------------------------------------------------- *)
DepthsDrawn == pc \notin {"depths"} /\ Len(depths) = N /\ N >= 1

\* A padding that keeps the sampling interval inside [min_phi, max_phi].
PaddingInRange == cfg.phi_padding >= 0 /\ cfg.phi_padding <= max_phi - min_phi

\* C10 as stated: for every depth the sampler draws from the padded interval,
\* on every depth grid that is not empty, the grid index lies in
\* 0..phi_sampling-1 and no write into fdf_gt falls outside the grid.
C10_IndexInGrid ==
    (~InvalidConfig /\ PaddingInRange) =>
        /\ DepthsDrawn => \A i \in Examples : \A p \in 1..2 : Idx(i, p) \in 0..(D - 1)
        /\ error.kind # "IndexError"

\* The depth grid has two points or more and the padding keeps the sampling
\* interval inside it.
C10_GridCoversDraws == D >= 2 /\ PaddingInRange

\* C10 amended: when phi_sampling >= 2 and 0 <= phi_padding <= max_phi -
\* min_phi, the index of every screen is the first grid index whose depth is
\* not less than the screen's depth, it lies in 0..phi_sampling-1, and no
\* write into fdf_gt falls outside the grid.
C10_IndexInGridWhenCovered ==
    C10_GridCoversDraws =>
        /\ DepthsDrawn =>
             \A i \in Examples : \A p \in 1..2 :
                /\ Idx(i, p) \in 0..(D - 1)
                /\ phis[Idx(i, p) + 1] >= depths[i][p]
                /\ \A k \in 1..Idx(i, p) : phis[k] < depths[i][p]
        /\ error.kind # "IndexError"

\* A screen at the upper end of the grid, one on the lower end, written
\* inside the grid.
C10_Witness ==
    /\ Returned
    /\ C10_GridCoversDraws
    /\ \E i \in Examples :
         /\ depths[i][1] = max_phi /\ Idx(i, 1) = D - 1
         /\ depths[i][2] = min_phi /\ Idx(i, 2) = 0
         /\ NonZero(fdf_gt[i][D])

====
